---------------------------- MODULE Spec2Model ----------------------------
(***************************************************************************)
(* Model of the travel-assistant workflow of src/main.py: the AgentState   *)
(* record, the city database, the three collaborators, the six graph       *)
(* nodes, the router, the compiled graph with its per-thread checkpoints,  *)
(* and TravelAgent.process_async.                                          *)
(*                                                                         *)
(* A Python str is a sequence of one-character strings, so that strip,     *)
(* lower, title and replace are computed as Python computes them.  None is *)
(* the record NONE; every other optional value is a record with a "tag".   *)
(***************************************************************************)
EXTENDS Integers, Sequences, FiniteSets, TLC

\* ------------------------------------------------------------------------
\* Bounds of the model
\* ------------------------------------------------------------------------

\* Total number of invocations (process_async or graph.ainvoke) in a behaviour.
MaxCalls == 2

Threads == {"t1", "t2"}

\* ------------------------------------------------------------------------
\* Python str operations
\* ------------------------------------------------------------------------

UpperLetters == <<"A", "B", "C", "D", "E", "F", "G", "H", "I", "J", "K", "L", "M",
                  "N", "O", "P", "Q", "R", "S", "T", "U", "V", "W", "X", "Y", "Z">>

LowerLetters == <<"a", "b", "c", "d", "e", "f", "g", "h", "i", "j", "k", "l", "m",
                  "n", "o", "p", "q", "r", "s", "t", "u", "v", "w", "x", "y", "z">>

IsUpper(c) == \E i \in DOMAIN UpperLetters : UpperLetters[i] = c

IsLower(c) == \E i \in DOMAIN LowerLetters : LowerLetters[i] = c

IsLetter(c) == IsUpper(c) \/ IsLower(c)

IsSpace(c) == c \in {" ", "\t", "\n"}

LowerChar(c) ==
    IF IsUpper(c)
    THEN LowerLetters[CHOOSE i \in DOMAIN UpperLetters : UpperLetters[i] = c]
    ELSE c

UpperChar(c) ==
    IF IsLower(c)
    THEN UpperLetters[CHOOSE i \in DOMAIN LowerLetters : LowerLetters[i] = c]
    ELSE c

\* str.lower()
Lower(s) == [i \in 1..Len(s) |-> LowerChar(s[i])]

\* str.title(): a letter that follows a non-letter is upper-cased, any other
\* letter is lower-cased.
Title(s) ==
    [i \in 1..Len(s) |->
        IF i = 1 \/ ~IsLetter(s[i - 1]) THEN UpperChar(s[i]) ELSE LowerChar(s[i])]

RECURSIVE LStrip(_)
LStrip(s) ==
    IF s = <<>> THEN <<>>
    ELSE IF IsSpace(Head(s)) THEN LStrip(Tail(s)) ELSE s

RECURSIVE RStrip(_)
RStrip(s) ==
    IF s = <<>> THEN <<>>
    ELSE IF IsSpace(s[Len(s)]) THEN RStrip(SubSeq(s, 1, Len(s) - 1)) ELSE s

\* str.strip(): the receiver is evaluated once, then stripped on the left and
\* on the right
Strip(s) == CHOOSE r \in {RStrip(l) : l \in {LStrip(v) : v \in {s}}} : TRUE

\* str.replace(old, ""): every non-overlapping occurrence of old, scanning
\* from the left, is removed.
RECURSIVE Remove(_, _)
Remove(s, old) ==
    IF Len(s) < Len(old) THEN s
    ELSE IF SubSeq(s, 1, Len(old)) = old
         THEN Remove(SubSeq(s, Len(old) + 1, Len(s)), old)
         ELSE <<Head(s)>> \o Remove(Tail(s), old)

\* ------------------------------------------------------------------------
\* Values
\* ------------------------------------------------------------------------

NONE == [tag |-> "None"]

\* A str held in an Optional[str] field.
Str(s) == [tag |-> "str", val |-> s]

\* The text of an error message, with the values formatted into it.
ErrorText(msg, arg) == [tag |-> "error", msg |-> msg, arg |-> arg]

\* route is "database", "web" or None; None is written NoRoute.
NoRoute == "None"

\* dict.get(key, default): the default only when the key is missing; a key
\* that is present with the value None yields None.
Get(d, key, default) == IF key \in DOMAIN d THEN d[key] ELSE default

HumanMessage(content) == [role |-> "human", content |-> content]

AIMessage(content) == [role |-> "ai", content |-> content]

\* json.dumps of a dict: the serialized text, kept as the value it encodes.
JsonDumps(obj) == [tag |-> "json", obj |-> obj]

\* json.loads of a message content: only text produced by json.dumps parses;
\* any other content raises.
JsonLoads(content) ==
    IF content.tag = "json"
    THEN [ok |-> TRUE, obj |-> content.obj]
    ELSE [ok |-> FALSE]

\* ------------------------------------------------------------------------
\* The city database
\* ------------------------------------------------------------------------

KeyParis == <<"p", "a", "r", "i", "s">>

KeyTokyo == <<"t", "o", "k", "y", "o">>

KeyNewYork == <<"n", "e", "w", " ", "y", "o", "r", "k">>

CityKeys == {KeyParis, KeyTokyo, KeyNewYork}

cities ==
    [k \in CityKeys |->
        CASE k = KeyParis ->
               [name |-> "Paris", country |-> "France",
                summary |-> "Paris is the capital and most populous city of France.",
                population |-> "2.2 million", timezone |-> "CET (UTC+1)"]
          [] k = KeyTokyo ->
               [name |-> "Tokyo", country |-> "Japan",
                summary |-> "Tokyo is the capital of Japan.",
                population |-> "14 million", timezone |-> "JST (UTC+9)"]
          [] k = KeyNewYork ->
               [name |-> "New York", country |-> "United States",
                summary |-> "New York City is the most populous city in the United States.",
                population |-> "8.3 million", timezone |-> "EST (UTC-5)"]]

\* search without the case fold
SearchNoCaseFold(city) ==
    LET city_lower == Strip(city)
    IN  IF city_lower \in DOMAIN cities
        THEN [tag |-> "record", key |-> city_lower, info |-> cities[city_lower]]
        ELSE NONE

\* CityDatabase.search: self.cities.get(city.lower().strip())
Search(city) ==
    LET city_lower == Strip(Lower(city))
    IN  IF city_lower \in DOMAIN cities
        THEN [tag |-> "record", key |-> city_lower, info |-> cities[city_lower]]
        ELSE NONE

\* has_city without the strip
HasCityNoStrip(city) == Lower(city) \in DOMAIN cities

\* CityDatabase.has_city: city.lower().strip() in self.cities
HasCity(city) == Strip(Lower(city)) \in DOMAIN cities

\* ------------------------------------------------------------------------
\* Collaborators
\* ------------------------------------------------------------------------

\* days = 5 of mock_weather_api, count = 5 of mock_image_api
Days == 5

Count == 5

colors == <<"FF6B6B", "4ECDC4", "45B7D1", "FFA07A", "98D8C8">>

conditions == <<"Sunny", "Cloudy", "Rainy", "Partly Cloudy", "Clear">>

\* The draws of the random module in one call of mock_weather_api: the base
\* temperature in 15..25, and per day a delta in -3..3, a condition index,
\* a humidity in 40..80 and a wind speed in 5..20.
WeatherDraws ==
    { [base |-> 15, delta |-> <<-3, 0, 3, 1, -1>>, cond |-> <<1, 2, 3, 4, 5>>,
       humidity |-> <<40, 50, 60, 70, 80>>, wind |-> <<5, 10, 15, 20, 5>>] }

\* a forecast that stops one day short
MockWeatherApiOneDayShort(city, days, draw) ==
    [tag |-> "list",
     items |-> [i \in 1..(days - 1) |->
                  [date_offset |-> i - 1,
                   temperature |-> draw.base + draw.delta[i],
                   condition |-> conditions[draw.cond[i]],
                   humidity |-> draw.humidity[i],
                   wind_speed |-> draw.wind[i]]]]

\* mock_weather_api(city, days): one record per day, today first.
MockWeatherApi(city, days, draw) ==
    [tag |-> "list",
     items |-> [i \in 1..days |->
                  [date_offset |-> i - 1,
                   temperature |-> draw.base + draw.delta[i],
                   condition |-> conditions[draw.cond[i]],
                   humidity |-> draw.humidity[i],
                   wind_speed |-> draw.wind[i]]]]

\* mock_image_api(city, count): one placeholder URL per photo.
MockImageApi(city, count) ==
    [tag |-> "list",
     items |-> [n \in 1..count |->
                  [color |-> colors[((n - 1) % Len(colors)) + 1],
                   text |-> Title(city),
                   photo |-> n]]]

\* mock_web_search(query): the simulated result text, quoting the query.
MockWebSearch(query) == [tag |-> "search_result", query |-> query]


\* ------------------------------------------------------------------------
\* The nodes: each maps the state to a partial update
\* ------------------------------------------------------------------------

TellMeAboutCap == <<"T", "e", "l", "l", " ", "m", "e", " ", "a", "b", "o", "u", "t">>

TellMeAboutLow == <<"t", "e", "l", "l", " ", "m", "e", " ", "a", "b", "o", "u", "t">>

WhatAboutCap == <<"W", "h", "a", "t", " ", "a", "b", "o", "u", "t">>

WhatAboutLow == <<"w", "h", "a", "t", " ", "a", "b", "o", "u", "t">>

\* Node 1, extract_city_node
ExtractCityNode(st) ==
    LET messages == Get(st, "messages", <<>>)
    IN  IF messages = <<>>
        THEN [error |-> ErrorText("No message provided", <<>>)]
        ELSE LET last_message == messages[Len(messages)]
             IN  IF last_message.role = "human"
                 THEN \* strip, the four replaces and strip, each applied to
                      \* the value the call before it returned
                      [city |-> CHOOSE city \in
                          {Strip(c4) : c4 \in
                          {Remove(c3, WhatAboutLow) : c3 \in
                          {Remove(c2, WhatAboutCap) : c2 \in
                          {Remove(c1, TellMeAboutLow) : c1 \in
                          {Remove(c0, TellMeAboutCap) : c0 \in
                          {Strip(last_message.content)}}}}}} : TRUE]
                 ELSE [error |-> ErrorText("Invalid message format", <<>>)]

\* Node 2, check_database_node
CheckDatabaseNodeNoCaseFold(st) ==
    IF Strip(Get(st, "city", <<>>)) \in DOMAIN cities
    THEN [route |-> "database"]
    ELSE [route |-> "web"]

CheckDatabaseNode(st) ==
    IF HasCity(Get(st, "city", <<>>))
    THEN [route |-> "database"]
    ELSE [route |-> "web"]

\* Node 3A, get_from_database_node
GetFromDatabaseNode(st) ==
    LET city == Get(st, "city", <<>>)
        city_info == Search(city)
    IN  IF city_info # NONE
        THEN [city_summary |-> [tag |-> "db_summary",
                                name |-> city_info.info.name,
                                country |-> city_info.info.country,
                                summary |-> city_info.info.summary,
                                population |-> city_info.info.population,
                                timezone |-> city_info.info.timezone],
              messages |-> <<AIMessage([tag |-> "found_in_database",
                                        name |-> city_info.info.name])>>]
        ELSE [error |-> ErrorText("Database lookup failed for", city)]

\* Node 3B, web_search_node, given what mock_web_search returned
WebSearchNode(st, search_result) ==
    LET city == Get(st, "city", <<>>)
    IN  [city_summary |-> [tag |-> "web_summary", city |-> city,
                           search_result |-> search_result],
         messages |-> <<AIMessage([tag |-> "searched_web", city |-> city])>>]

\* asyncio.gather(weather_task, images_task): the results in the order of
\* the arguments, whichever task completed first.
GatherByCompletion(done, weather_value, images_value) ==
    IF done = <<"images", "weather">>
    THEN <<images_value, weather_value>>
    ELSE <<weather_value, images_value>>

Gather(done, weather_value, images_value) == <<weather_value, images_value>>

\* Node 4, parallel_fetch_node, from the await of gather on
ParallelFetchNodeWeatherOnly(st, gathered) ==
    [weather_forecast |-> gathered[1],
     messages |-> <<AIMessage([tag |-> "fetched", city |-> Get(st, "city", <<>>)])>>]

ParallelFetchNode(st, gathered) ==
    [weather_forecast |-> gathered[1],
     image_urls |-> gathered[2],
     messages |-> <<AIMessage([tag |-> "fetched", city |-> Get(st, "city", <<>>)])>>]

\* a combine node that leaves the gallery out of the structured result
CombineResultsNodeNoGallery(st) ==
    LET structured_output ==
            [city |-> Get(st, "city", <<>>),
             city_summary |-> Get(st, "city_summary", Str("No summary available")),
             weather_forecast |-> Get(st, "weather_forecast", [tag |-> "list", items |-> <<>>]),
             image_urls |-> [tag |-> "list", items |-> <<>>],
             timestamp |-> "now"]
    IN  [messages |-> <<AIMessage(JsonDumps(structured_output))>>,
         last_city |-> Str(Get(st, "city", <<>>))]

\* Node 5, combine_results_node
CombineResultsNode(st) ==
    LET structured_output ==
            [city |-> Get(st, "city", <<>>),
             city_summary |-> Get(st, "city_summary", Str("No summary available")),
             weather_forecast |-> Get(st, "weather_forecast", [tag |-> "list", items |-> <<>>]),
             image_urls |-> Get(st, "image_urls", [tag |-> "list", items |-> <<>>]),
             timestamp |-> "now"]
    IN  [messages |-> <<AIMessage(JsonDumps(structured_output))>>,
         last_city |-> Str(Get(st, "city", <<>>))]

\* ------------------------------------------------------------------------
\* Routing and the graph
\* ------------------------------------------------------------------------

\* route_based_on_check
route_based_on_check(st) == Get(st, "route", "web")

\* The dispatch table of add_conditional_edges; a value that is no key of
\* the table makes the executor raise.
ConditionalEdgesSwapped(r) ==
    CASE r = "database" -> "web_search"
      [] r = "web" -> "get_from_database"
      [] OTHER -> "raise"

ConditionalEdges(r) ==
    CASE r = "database" -> "get_from_database"
      [] r = "web" -> "web_search"
      [] OTHER -> "raise"

\* The edges of build_agent_graph: the node that follows `node` in state st.
NextNodeSkipsFetch(node, st) ==
    CASE node = "extract_city" -> "check_database"
      [] node = "check_database" -> ConditionalEdges(route_based_on_check(st))
      [] node = "get_from_database" -> "combine_results"
      [] node = "web_search" -> "parallel_fetch"
      [] node = "parallel_fetch" -> "combine_results"
      [] node = "combine_results" -> "END"

NextNode(node, st) ==
    CASE node = "extract_city" -> "check_database"
      [] node = "check_database" -> ConditionalEdges(route_based_on_check(st))
      [] node = "get_from_database" -> "parallel_fetch"
      [] node = "web_search" -> "parallel_fetch"
      [] node = "parallel_fetch" -> "combine_results"
      [] node = "combine_results" -> "END"

\* The reducers of AgentState: messages is Annotated with operator.add, every
\* other field takes the last value written.
MergeOverwritesMessages(st, upd) ==
    [k \in DOMAIN st \cup DOMAIN upd |-> IF k \in DOMAIN upd THEN upd[k] ELSE st[k]]

Merge(st, upd) ==
    [k \in DOMAIN st \cup DOMAIN upd |->
        IF k \in DOMAIN upd
        THEN IF k = "messages" /\ k \in DOMAIN st THEN st[k] \o upd[k] ELSE upd[k]
        ELSE st[k]]

\* ------------------------------------------------------------------------
\* Inputs
\* ------------------------------------------------------------------------

TextEmpty == <<>>

TextParis == <<"P", "a", "r", "i", "s">>

TextTellTokyo == <<"t", "e", "l", "l", " ", "m", "e", " ", "a", "b", "o", "u", "t", " ",
                   "T", "o", "k", "y", "o">>

TextUpperTellTokyo == <<"T", "E", "L", "L", " ", "M", "E", " ", "A", "B", "O", "U", "T", " ",
                        "T", "o", "k", "y", "o">>

TextSnohomish == <<"S", "n", "o", "h", "o", "m", "i", "s", "h">>

\* The user texts submitted to process_async.
UserTexts == {TextEmpty, TextParis, TextTellTokyo, TextUpperTellTokyo, TextSnohomish}

\* The message lists given to the compiled graph when it is invoked without
\* process_async: none, or one that does not end with a user message.
GraphMessages == { <<>> }

\* What a collaborator call does: return, or raise.
Outcomes == {"ok", "raise"}

\* initial_state of process_async, for the given message list
InitialState(messages) ==
    [messages |-> messages,
     city |-> <<>>,
     route |-> NoRoute,
     city_summary |-> NONE,
     weather_forecast |-> NONE,
     image_urls |-> NONE,
     error |-> NONE,
     last_city |-> NONE,
     conversation_context |-> [tag |-> "dict"]]

\* ------------------------------------------------------------------------
\* State
\* ------------------------------------------------------------------------

VARIABLES
    pc,            \* per thread id: where the invocation under it stands
    entry,         \* per thread id: "process_async" or "ainvoke"
    user_input,    \* per thread id: the text given to process_async
    state,         \* per thread id: the AgentState of the graph run
    checkpoint,    \* the MemorySaver: the AgentState saved under each thread id
    executed,      \* per thread id: the nodes the run has executed, in order
    weather_task,  \* per thread id: the task of fetch_weather_async
    images_task,   \* per thread id: the task of fetch_images_async
    completed,     \* per thread id: the tasks in the order they completed
    raised,        \* per thread id: the exception the run raised, or NONE
    result,        \* per thread id: what the invocation returned, or NONE
    calls,         \* number of invocations so far
    lookup         \* the last query put to the city database, or NONE

vars == <<pc, entry, user_input, state, checkpoint, executed, weather_task,
          images_task, completed, raised, result, calls, lookup>>

NoTask == [status |-> "none"]

Nodes == {"extract_city", "check_database", "get_from_database", "web_search",
          "parallel_fetch", "combine_results"}

Init ==
    /\ pc = [t \in Threads |-> "idle"]
    /\ entry = [t \in Threads |-> "none"]
    /\ user_input = [t \in Threads |-> <<>>]
    /\ state = [t \in Threads |-> NONE]
    /\ checkpoint = <<>>
    /\ executed = [t \in Threads |-> <<>>]
    /\ weather_task = [t \in Threads |-> NoTask]
    /\ images_task = [t \in Threads |-> NoTask]
    /\ completed = [t \in Threads |-> <<>>]
    /\ raised = [t \in Threads |-> NONE]
    /\ result = [t \in Threads |-> NONE]
    /\ calls = 0
    /\ lookup = NONE

\* ------------------------------------------------------------------------
\* The executor: graph.ainvoke(input, config) under a thread id
\* ------------------------------------------------------------------------

\* The checkpoint store keeps one snapshot per thread id.  A save replaces
\* the snapshot of its thread id; a load returns it, or None for a thread
\* id nothing was saved under.
SaveFirstWriteWins(store, id, s) ==
    IF id \in DOMAIN store
    THEN store
    ELSE [k \in DOMAIN store \cup {id} |-> IF k = id THEN s ELSE store[k]]

Save(store, id, s) ==
    [k \in DOMAIN store \cup {id} |-> IF k = id THEN s ELSE store[k]]

Load(store, id) == IF id \in DOMAIN store THEN store[id] ELSE NONE

\* an input of which only the messages are written over the checkpoint
ApplyInputMessagesOnly(saved, input) ==
    IF saved = NONE THEN input
    ELSE [saved EXCEPT !.messages = saved.messages \o input.messages]

\* The state a run starts from: the input written over the checkpoint of the
\* thread id through the reducers (a first run has no checkpoint).
ApplyInput(saved, input) ==
    IF saved = NONE THEN input ELSE Merge(saved, input)

\* A run starts at the entry point, and the state with the input applied is
\* checkpointed.
StartRun(t, how, text, input) ==
    /\ calls < MaxCalls
    /\ calls' = calls + 1
    /\ entry' = [entry EXCEPT ![t] = how]
    /\ user_input' = [user_input EXCEPT ![t] = text]
    /\ state' = [state EXCEPT ![t] = ApplyInput(Load(checkpoint, t), input)]
    /\ checkpoint' = Save(checkpoint, t, ApplyInput(Load(checkpoint, t), input))
    /\ pc' = [pc EXCEPT ![t] = "extract_city"]
    /\ executed' = [executed EXCEPT ![t] = <<>>]
    /\ weather_task' = [weather_task EXCEPT ![t] = NoTask]
    /\ images_task' = [images_task EXCEPT ![t] = NoTask]
    /\ completed' = [completed EXCEPT ![t] = <<>>]
    /\ raised' = [raised EXCEPT ![t] = NONE]
    /\ result' = [result EXCEPT ![t] = NONE]
    /\ UNCHANGED lookup

\* process_async(user_input, thread_id) up to the call of ainvoke
ProcessAsync(t, text) ==
    /\ pc[t] \in {"idle", "returned"}
    /\ StartRun(t, "process_async", text, InitialState(<<HumanMessage(text)>>))

\* The compiled graph of build_agent_graph invoked by itself
GraphAinvoke(t, messages) ==
    /\ pc[t] \in {"idle", "returned"}
    /\ StartRun(t, "ainvoke", <<>>, InitialState(messages))

\* one state and one checkpoint slot shared by every thread id
AdvanceSharedState(t, node, upd) ==
    LET merged == Merge(state[t], upd)
    IN  /\ state' = [u \in Threads |-> merged]
        /\ checkpoint' = [u \in Threads |-> merged]
        /\ executed' = [executed EXCEPT ![t] = Append(@, node)]
        /\ pc' = [pc EXCEPT ![t] = NextNode(node, merged)]

\* A node returned `upd`: it is merged into the state, the state is
\* checkpointed and the edge out of the node is followed.
Advance(t, node, upd) ==
    LET merged == Merge(state[t], upd)
    IN  /\ state' = [state EXCEPT ![t] = merged]
        /\ checkpoint' = Save(checkpoint, t, merged)
        /\ executed' = [executed EXCEPT ![t] = Append(@, node)]
        /\ pc' = [pc EXCEPT ![t] = NextNode(node, merged)]

\* a failure undoing what the completed nodes of the run wrote
RaiseRollsBack(t, node, exc) ==
    /\ pc' = [pc EXCEPT ![t] = "raised"]
    /\ raised' = [raised EXCEPT ![t] = [tag |-> "exception", what |-> exc]]
    /\ executed' = [executed EXCEPT ![t] = Append(@, node)]
    /\ state' = [state EXCEPT ![t] =
            Merge(@, [city |-> <<>>, route |-> NoRoute, city_summary |-> NONE])]
    /\ checkpoint' = [checkpoint EXCEPT ![t] =
            Merge(@, [city |-> <<>>, route |-> NoRoute, city_summary |-> NONE])]

\* A node raised: the run ends with the exception, the state and the
\* checkpoint stay as the last completed node left them.
Raise(t, node, exc) ==
    /\ pc' = [pc EXCEPT ![t] = "raised"]
    /\ raised' = [raised EXCEPT ![t] = [tag |-> "exception", what |-> exc]]
    /\ executed' = [executed EXCEPT ![t] = Append(@, node)]
    /\ UNCHANGED <<state, checkpoint>>

ExtractCity(t) ==
    /\ pc[t] = "extract_city"
    /\ Advance(t, "extract_city", ExtractCityNode(state[t]))
    /\ UNCHANGED <<entry, user_input, weather_task, images_task, completed,
                   raised, result, calls>>
    /\ UNCHANGED lookup

CheckDatabase(t) ==
    /\ pc[t] = "check_database"
    /\ Advance(t, "check_database", CheckDatabaseNode(state[t]))
    /\ UNCHANGED <<entry, user_input, weather_task, images_task, completed,
                   raised, result, calls>>
    /\ UNCHANGED lookup

GetFromDatabase(t) ==
    /\ pc[t] = "get_from_database"
    /\ Advance(t, "get_from_database", GetFromDatabaseNode(state[t]))
    /\ UNCHANGED <<entry, user_input, weather_task, images_task, completed,
                   raised, result, calls>>
    /\ UNCHANGED lookup

WebSearch(t) ==
    /\ pc[t] = "web_search"
    /\ \E outcome \in Outcomes :
        IF outcome = "ok"
        THEN /\ Advance(t, "web_search",
                        WebSearchNode(state[t], MockWebSearch(state[t].city)))
             /\ UNCHANGED raised
        ELSE Raise(t, "web_search", "search failed")
    /\ UNCHANGED <<entry, user_input, weather_task, images_task, completed,
                   result, calls>>
    /\ UNCHANGED lookup

\* parallel_fetch_node up to the await: both coroutines are handed to gather.
ParallelFetchStart(t) ==
    /\ pc[t] = "parallel_fetch"
    /\ pc' = [pc EXCEPT ![t] = "gather"]
    /\ weather_task' = [weather_task EXCEPT ![t] = [status |-> "pending"]]
    /\ images_task' = [images_task EXCEPT ![t] = [status |-> "pending"]]
    /\ completed' = [completed EXCEPT ![t] = <<>>]
    /\ UNCHANGED <<entry, user_input, state, checkpoint, executed, raised,
                   result, calls>>
    /\ UNCHANGED lookup

\* fetch_weather_async completes, with a forecast or with an exception.
WeatherCompletes(t) ==
    /\ pc[t] = "gather"
    /\ weather_task[t].status = "pending"
    /\ \/ \E draw \in WeatherDraws :
            weather_task' = [weather_task EXCEPT ![t] =
                [status |-> "done", value |-> MockWeatherApi(state[t].city, Days, draw)]]
       \/ weather_task' = [weather_task EXCEPT ![t] =
                [status |-> "failed", exc |-> "weather failed"]]
    /\ completed' = [completed EXCEPT ![t] = Append(@, "weather")]
    /\ UNCHANGED <<pc, entry, user_input, state, checkpoint, executed,
                   images_task, raised, result, calls>>
    /\ UNCHANGED lookup

\* fetch_images_async completes, with the URLs or with an exception.
ImagesCompletes(t) ==
    /\ pc[t] = "gather"
    /\ images_task[t].status = "pending"
    /\ \/ images_task' = [images_task EXCEPT ![t] =
                [status |-> "done", value |-> MockImageApi(state[t].city, Count)]]
       \/ images_task' = [images_task EXCEPT ![t] =
                [status |-> "failed", exc |-> "images failed"]]
    /\ completed' = [completed EXCEPT ![t] = Append(@, "images")]
    /\ UNCHANGED <<pc, entry, user_input, state, checkpoint, executed,
                   weather_task, raised, result, calls>>
    /\ UNCHANGED lookup

\* Both tasks are done: gather returns and the node returns its update.
GatherReturns(t) ==
    /\ pc[t] = "gather"
    /\ weather_task[t].status = "done"
    /\ images_task[t].status = "done"
    /\ Advance(t, "parallel_fetch",
               ParallelFetchNode(state[t],
                   Gather(completed[t], weather_task[t].value, images_task[t].value)))
    /\ UNCHANGED <<entry, user_input, weather_task, images_task, completed,
                   raised, result, calls>>
    /\ UNCHANGED lookup

TaskOf(t, name) == IF name = "weather" THEN weather_task[t] ELSE images_task[t]

\* gather collecting what the tasks that did not fail returned
GatherRaisesPartial(t) ==
    /\ pc[t] = "gather"
    /\ \E i \in DOMAIN completed[t] :
        /\ TaskOf(t, completed[t][i]).status = "failed"
        /\ \A j \in 1..(i - 1) : TaskOf(t, completed[t][j]).status # "failed"
        /\ pc' = [pc EXCEPT ![t] = "raised"]
        /\ raised' = [raised EXCEPT ![t] =
                [tag |-> "exception", what |-> TaskOf(t, completed[t][i]).exc]]
        /\ executed' = [executed EXCEPT ![t] = Append(@, "parallel_fetch")]
        /\ LET partial ==
                   IF weather_task[t].status = "done"
                   THEN [weather_forecast |-> weather_task[t].value]
                   ELSE IF images_task[t].status = "done"
                        THEN [image_urls |-> images_task[t].value]
                        ELSE [error |-> state[t].error]
           IN  /\ state' = [state EXCEPT ![t] = Merge(state[t], partial)]
               /\ checkpoint' = [checkpoint EXCEPT ![t] = Merge(state[t], partial)]
    /\ UNCHANGED <<entry, user_input, weather_task, images_task, completed,
                   result, calls>>
    /\ UNCHANGED lookup

\* gather raising only once every task has failed
GatherRaisesWhenAllFailed(t) ==
    /\ pc[t] = "gather"
    /\ weather_task[t].status = "failed"
    /\ images_task[t].status = "failed"
    /\ Raise(t, "parallel_fetch", TaskOf(t, completed[t][1]).exc)
    /\ UNCHANGED <<entry, user_input, weather_task, images_task, completed,
                   result, calls>>
    /\ UNCHANGED lookup

\* A task failed: gather raises, out of the node, the exception of the task
\* that failed first; the other task may be pending, done or failed by then.
GatherRaises(t) ==
    /\ pc[t] = "gather"
    /\ \E i \in DOMAIN completed[t] :
        /\ TaskOf(t, completed[t][i]).status = "failed"
        /\ \A j \in 1..(i - 1) : TaskOf(t, completed[t][j]).status # "failed"
        /\ Raise(t, "parallel_fetch", TaskOf(t, completed[t][i]).exc)
    /\ UNCHANGED <<entry, user_input, weather_task, images_task, completed,
                   result, calls>>
    /\ UNCHANGED lookup

CombineResults(t) ==
    /\ pc[t] = "combine_results"
    /\ Advance(t, "combine_results", CombineResultsNode(state[t]))
    /\ weather_task' = [weather_task EXCEPT ![t] = NoTask]
    /\ images_task' = [images_task EXCEPT ![t] = NoTask]
    /\ completed' = [completed EXCEPT ![t] = <<>>]
    /\ UNCHANGED <<entry, user_input, raised, result, calls>>
    /\ UNCHANGED lookup

\* ------------------------------------------------------------------------
\* Returning to the caller
\* ------------------------------------------------------------------------

EmptyStr == Str(<<>>)

EmptyList == [tag |-> "list", items |-> <<>>]

\* Python truth value of an optional str or list.
Truthy(v) ==
    CASE v.tag = "None" -> FALSE
      [] v.tag = "str" -> v.val # <<>>
      [] v.tag = "list" -> v.items # <<>>
      [] OTHER -> TRUE

\* process_async after ainvoke returned the final state `final`
StructuredResult(final) ==
    LET messages == Get(final, "messages", <<>>)
        last_message == messages[Len(messages)]
        fallback == [city |-> Get(final, "city", <<>>),
                     city_summary |-> Get(final, "city_summary", EmptyStr),
                     weather_forecast |-> Get(final, "weather_forecast", EmptyList),
                     image_urls |-> Get(final, "image_urls", EmptyList),
                     error |-> Get(final, "error", NONE)]
    IN  IF messages # <<>> /\ last_message.role = "ai"
           /\ JsonLoads(last_message.content).ok
        THEN JsonLoads(last_message.content).obj
        ELSE fallback

\* process_async without its except branch: the exception reaches the caller
ErrorResultPropagates(exc) == [tag |-> "exception", what |-> exc]

\* process_async when ainvoke raised `exc`
ErrorResult(exc) ==
    [error |-> ErrorText("Agent error", exc),
     city |-> <<>>,
     city_summary |-> EmptyStr,
     weather_forecast |-> EmptyList,
     image_urls |-> EmptyList]

\* process_async from the return of ainvoke on
ProcessAsyncReturn(t) ==
    /\ entry[t] = "process_async"
    /\ pc[t] \in {"END", "raised"}
    /\ result' = [result EXCEPT ![t] =
            IF pc[t] = "END" THEN StructuredResult(state[t])
            ELSE ErrorResult(raised[t].what)]
    /\ pc' = [pc EXCEPT ![t] = "returned"]
    /\ weather_task' = [weather_task EXCEPT ![t] = NoTask]
    /\ images_task' = [images_task EXCEPT ![t] = NoTask]
    /\ completed' = [completed EXCEPT ![t] = <<>>]
    /\ UNCHANGED <<entry, user_input, state, checkpoint, executed, raised, calls>>
    /\ UNCHANGED lookup

\* The graph invoked by itself returns the final state, or lets the
\* exception through.
AinvokeReturn(t) ==
    /\ entry[t] = "ainvoke"
    /\ pc[t] \in {"END", "raised"}
    /\ result' = [result EXCEPT ![t] =
            IF pc[t] = "END" THEN state[t] ELSE raised[t]]
    /\ pc' = [pc EXCEPT ![t] = "returned"]
    /\ weather_task' = [weather_task EXCEPT ![t] = NoTask]
    /\ images_task' = [images_task EXCEPT ![t] = NoTask]
    /\ completed' = [completed EXCEPT ![t] = <<>>]
    /\ UNCHANGED <<entry, user_input, state, checkpoint, executed, raised, calls>>
    /\ UNCHANGED lookup

Next ==
    \E t \in Threads :
        \/ \E text \in UserTexts : ProcessAsync(t, text)
        \/ \E messages \in GraphMessages : GraphAinvoke(t, messages)
        \/ ExtractCity(t)
        \/ CheckDatabase(t)
        \/ GetFromDatabase(t)
        \/ WebSearch(t)
        \/ ParallelFetchStart(t)
        \/ WeatherCompletes(t)
        \/ ImagesCompletes(t)
        \/ GatherReturns(t)
        \/ GatherRaises(t)
        \/ CombineResults(t)
        \/ ProcessAsyncReturn(t)
        \/ AinvokeReturn(t)

Spec == Init /\ [][Next]_vars

\* What the event loop does for the run under t: it runs the node that is
\* ready, returns from gather, and resumes process_async when ainvoke
\* returned or raised.
ExecutorStep(t) ==
    \/ ExtractCity(t)
    \/ CheckDatabase(t)
    \/ GetFromDatabase(t)
    \/ ParallelFetchStart(t)
    \/ GatherReturns(t)
    \/ GatherRaises(t)
    \/ CombineResults(t)
    \/ ProcessAsyncReturn(t)

\* The event loop keeps running what is ready, and every collaborator call
\* eventually completes or fails.
Fairness ==
    \A t \in Threads :
        /\ WF_vars(ExecutorStep(t))
        /\ WF_vars(WeatherCompletes(t))
        /\ WF_vars(ImagesCompletes(t))
        /\ WF_vars(WebSearch(t))

\* Number of process_async calls in a behaviour of the fair specification.
MaxLiveCalls == 1

\* A city of the database, one asked for in a sentence, and an unknown one.
LiveTexts == {TextParis, TextTellTokyo, TextSnohomish}

\* The runs started through process_async only.
NextLive ==
    \E t \in Threads :
        \/ \E text \in LiveTexts : calls < MaxLiveCalls /\ ProcessAsync(t, text)
        \/ ExtractCity(t)
        \/ CheckDatabase(t)
        \/ GetFromDatabase(t)
        \/ WebSearch(t)
        \/ ParallelFetchStart(t)
        \/ WeatherCompletes(t)
        \/ ImagesCompletes(t)
        \/ GatherReturns(t)
        \/ GatherRaises(t)
        \/ CombineResults(t)
        \/ ProcessAsyncReturn(t)

SpecLive == Init /\ [][NextLive]_vars /\ Fairness

\* ------------------------------------------------------------------------
\* The city database queried by itself
\* ------------------------------------------------------------------------

\* Longest run of whitespace put before and after a key.
MaxPad == 1

SpaceChars == {" ", "\t", "\n"}

RECURSIVE PadsUpTo(_)
PadsUpTo(n) ==
    IF n = 0 THEN {<<>>}
    ELSE PadsUpTo(n - 1) \cup
         {<<c>> \o p : c \in SpaceChars, p \in {q \in PadsUpTo(n - 1) : Len(q) = n - 1}}

Pads == PadsUpTo(MaxPad)

\* The names asked for: the stored keys, and strings that are no stored key
\* (an unknown city, a stored key cut short, one with its inner space
\* removed or doubled, the empty string).
KeySnohomish == <<"s", "n", "o", "h", "o", "m", "i", "s", "h">>

KeyPari == <<"p", "a", "r", "i">>

KeyNewYorkJoined == <<"n", "e", "w", "y", "o", "r", "k">>

KeyNewYorkWide == <<"n", "e", "w", " ", " ", "y", "o", "r", "k">>

BaseKeys == CityKeys \cup {KeySnohomish, KeyPari, KeyNewYorkJoined, KeyNewYorkWide, <<>>}

LetterCases == {"lower", "upper", "title"}

InCase(form, s) ==
    CASE form = "lower" -> Lower(s)
      [] form = "upper" -> [i \in 1..Len(s) |-> UpperChar(s[i])]
      [] form = "title" -> Title(s)

\* db.has_city(key) and db.search(key) called with the same key
Probe(left, form, base, right) ==
    LET key == left \o InCase(form, base) \o right
    IN  /\ lookup = NONE
        /\ lookup' = [base |-> base, key |-> key,
                      has |-> HasCity(key), find |-> Search(key)]
        /\ UNCHANGED <<pc, entry, user_input, state, checkpoint, executed,
                       weather_task, images_task, completed, raised, result, calls>>

\* The caller is done with the two answers; the database is as it was.
ProbeDone ==
    /\ lookup # NONE
    /\ lookup' = NONE
    /\ UNCHANGED <<pc, entry, user_input, state, checkpoint, executed,
                   weather_task, images_task, completed, raised, result, calls>>

NextStore ==
    \/ \E left \in Pads, form \in LetterCases, base \in BaseKeys, right \in Pads :
          Probe(left, form, base, right)
    \/ ProbeDone

SpecStore == Init /\ [][NextStore]_vars

\* ------------------------------------------------------------------------
\* Properties
\* ------------------------------------------------------------------------

Range(s) == {s[i] : i \in DOMAIN s}

IsPrefix(p, s) == Len(p) <= Len(s) /\ SubSeq(s, 1, Len(p)) = p

Last(s) == s[Len(s)]

\* The invocation under t has started and state[t] is its AgentState.
Started(t) == pc[t] # "idle"

\* The run under t is between its start and its return to the caller.
InRun(t) == pc[t] \in Nodes \cup {"gather", "END", "raised"}

BranchNodes == {"get_from_database", "web_search"}

LookupOrder == <<"extract_city", "check_database", "get_from_database",
                 "parallel_fetch", "combine_results">>

ExternalOrder == <<"extract_city", "check_database", "web_search",
                   "parallel_fetch", "combine_results">>

\* C1: a run started by process_async executes its nodes in the order
\* extract_city, check_database, one of get_from_database and web_search,
\* parallel_fetch, combine_results: at every moment the nodes executed so far
\* are a prefix of one of the two orders (so none runs twice or out of
\* order), and a run that reached END has executed exactly one of them.
C1_FixedOrder ==
    \A t \in Threads :
        entry[t] = "process_async" =>
            /\ IsPrefix(executed[t], LookupOrder) \/ IsPrefix(executed[t], ExternalOrder)
            /\ (pc[t] = "END" \/ (pc[t] = "returned" /\ raised[t] = NONE))
                  => executed[t] \in {LookupOrder, ExternalOrder}
            /\ pc[t] \in Nodes => pc[t] \notin Range(executed[t])

C1_Witness ==
    \E t \in Threads :
        /\ entry[t] = "process_async"
        /\ pc[t] = "END"
        /\ executed[t] = ExternalOrder

\* C2: once a node has populated error, the executor executes no further
\* node of that run.
C2_ErrorStopsRun ==
    [][\A t \in Threads :
          (InRun(t) /\ state[t].error # NONE) => executed'[t] = executed[t]]_vars

\* C3: empty user text given to process_async comes back as a result with
\* an error and without summary, forecast and gallery, and only the
\* extraction node has executed.
C3_EmptyTextRejected ==
    \A t \in Threads :
        (entry[t] = "process_async" /\ user_input[t] = <<>> /\ pc[t] = "returned") =>
            /\ Truthy(Get(result[t], "error", NONE))
            /\ ~Truthy(result[t].city_summary)
            /\ ~Truthy(result[t].weather_forecast)
            /\ ~Truthy(result[t].image_urls)
            /\ executed[t] = <<"extract_city">>

\* C4: a result of process_async without an error has a non-empty subject,
\* summary, forecast and gallery.
C4_NoErrorAllPopulated ==
    \A t \in Threads :
        (entry[t] = "process_async" /\ pc[t] = "returned"
            /\ ~Truthy(Get(result[t], "error", NONE))) =>
            /\ result[t].city # <<>>
            /\ Truthy(result[t].city_summary)
            /\ Truthy(result[t].weather_forecast)
            /\ Truthy(result[t].image_urls)

\* C5: route is "database" or "web" when a branch node is about to run; the
\* branch node that runs is the one route selects; the two never both run;
\* a run that reached END has run exactly one, and summary is the one that
\* branch node wrote.
C5_BranchFollowsRoute ==
    \A t \in Threads :
        Started(t) =>
            /\ pc[t] \in BranchNodes => state[t].route \in {"database", "web"}
            /\ (pc[t] = "get_from_database" \/ "get_from_database" \in Range(executed[t]))
                  => state[t].route = "database"
            /\ (pc[t] = "web_search" \/ "web_search" \in Range(executed[t]))
                  => state[t].route = "web"
            /\ ~(BranchNodes \subseteq Range(executed[t]))
            /\ pc[t] = "END" =>
                  /\ Cardinality(BranchNodes \cap Range(executed[t])) = 1
                  /\ state[t].route = "database" => state[t].city_summary.tag = "db_summary"
                  /\ state[t].route = "web" => state[t].city_summary.tag = "web_summary"

C5_Witness ==
    \E t \in Threads :
        /\ pc[t] = "END"
        /\ state[t].route = "database"
        /\ "get_from_database" \in Range(executed[t])
        /\ state[t].city_summary.tag = "db_summary"

\* C6: once check_database has run, route is "database" exactly when the
\* database has the subject, and "web" otherwise.
C6_RouteIffHasCity ==
    \A t \in Threads :
        (Started(t) /\ "check_database" \in Range(executed[t])) =>
            /\ state[t].route \in {"database", "web"}
            /\ state[t].route = "database" <=> HasCity(state[t].city)

\* The empty subject routed to "web" in one run, and a subject that differs
\* in case from its stored key routed to "database" in another.
C6_Witness ==
    \E t, u \in Threads :
        /\ "check_database" \in Range(executed[t])
        /\ state[t].city = <<>>
        /\ state[t].route = "web"
        /\ "check_database" \in Range(executed[u])
        /\ state[u].city \notin CityKeys
        /\ state[u].route = "database"

\* C7: the router returns "database" or "web" in every state of a run, and
\* "web" whenever route is unset.
C7_RouterTotal ==
    \A t \in Threads :
        Started(t) =>
            /\ route_based_on_check(state[t]) \in {"database", "web"}
            /\ state[t].route = NoRoute => route_based_on_check(state[t]) = "web"

\* C8: forecast is populated exactly when gallery is; when they are, the
\* fan-out node and, before it, a branch node have run; neither is populated
\* while the run is at or before the fan-out node.
C8_ForecastWithGallery ==
    \A t \in Threads :
        Started(t) =>
            /\ Truthy(state[t].weather_forecast) <=> Truthy(state[t].image_urls)
            /\ Truthy(state[t].weather_forecast) =>
                  \E i, j \in DOMAIN executed[t] :
                      /\ i < j
                      /\ executed[t][i] \in BranchNodes
                      /\ executed[t][j] = "parallel_fetch"
            /\ pc[t] \in {"extract_city", "check_database", "get_from_database",
                          "web_search", "parallel_fetch", "gather"} =>
                  /\ state[t].weather_forecast = NONE
                  /\ state[t].image_urls = NONE

C8_Witness ==
    \E t \in Threads :
        /\ pc[t] = "combine_results"
        /\ Truthy(state[t].weather_forecast)
        /\ Truthy(state[t].image_urls)

\* C9: whichever task completes first, the step in which gather returns
\* writes the weather task's result to weather_forecast and the images
\* task's result to image_urls, appends exactly one message, and changes no
\* other field.
C9_GatherOrderIndependent ==
    [][\A t \in Threads :
          (pc[t] = "gather" /\ pc'[t] = "combine_results") =>
              /\ state'[t].weather_forecast = weather_task[t].value
              /\ state'[t].image_urls = images_task[t].value
              /\ \E draw \in WeatherDraws :
                    state'[t].weather_forecast = MockWeatherApi(state[t].city, Days, draw)
              /\ state'[t].image_urls = MockImageApi(state[t].city, Count)
              /\ Len(state'[t].messages) = Len(state[t].messages) + 1
              /\ IsPrefix(state[t].messages, state'[t].messages)
              /\ Last(state'[t].messages).content.tag = "fetched"
              /\ \A k \in DOMAIN state[t] \ {"weather_forecast", "image_urls", "messages"} :
                    state'[t][k] = state[t][k]]_vars

\* The fan-out node has returned in a run where the images task completed
\* before the weather task.
C9_Witness ==
    \E t \in Threads :
        /\ pc[t] = "combine_results"
        /\ completed[t] = <<"images", "weather">>
        /\ "parallel_fetch" \in Range(executed[t])

\* C10: when a task of the fan-out node fails, the state and the checkpoint
\* hold no forecast, no gallery and no message of the fan-out node, whatever
\* the other task did, and process_async returns an error with an empty
\* forecast and an empty gallery.
C10_FanOutFailsAsUnit ==
    \A t \in Threads :
        (Started(t) /\ raised[t] # NONE /\ Last(executed[t]) = "parallel_fetch") =>
            /\ state[t].weather_forecast = NONE
            /\ state[t].image_urls = NONE
            /\ Last(state[t].messages).content.tag \in {"found_in_database", "searched_web"}
            /\ checkpoint[t] = state[t]
            /\ (entry[t] = "process_async" /\ pc[t] = "returned") =>
                  /\ Truthy(result[t].error)
                  /\ result[t].weather_forecast = EmptyList
                  /\ result[t].image_urls = EmptyList

\* The images task failed after the weather task had succeeded.
C10_Witness ==
    \E t \in Threads :
        /\ pc[t] = "raised"
        /\ Last(executed[t]) = "parallel_fetch"
        /\ weather_task[t].status = "done"
        /\ images_task[t].status = "failed"

\* The subject extract_city_node derives from a user text.
SubjectOf(text) == ExtractCityNode([messages |-> <<HumanMessage(text)>>]).city

\* C11 as stated: after a node raised, process_async returns the state of
\* the run with error set, in which the subject and the summary written by
\* the completed nodes are retained.
C11_FailureReturnsState ==
    \A t \in Threads :
        (entry[t] = "process_async" /\ pc[t] = "returned" /\ raised[t] # NONE) =>
            /\ Truthy(result[t].error)
            /\ result[t].city = state[t].city
            /\ result[t].city_summary = state[t].city_summary

\* C11 as amended: after a node raised, no further node runs and none runs
\* again (the run stands at the failure, its executed nodes a prefix of one
\* of the two orders ending in the node that raised); the state and the
\* checkpoint of the thread id keep the subject, route, summary and messages
\* of the completed nodes (with error unset in a run of process_async); and
\* what process_async returns is not that state but an error result whose
\* city, summary, forecast and gallery are empty.
C11_FailureKeepsCheckpoint ==
    \A t \in Threads :
        (Started(t) /\ raised[t] # NONE) =>
            /\ pc[t] \in {"raised", "returned"}
            /\ IsPrefix(executed[t], LookupOrder) \/ IsPrefix(executed[t], ExternalOrder)
            /\ Last(executed[t]) \in {"web_search", "parallel_fetch"}
            /\ checkpoint[t] = state[t]
            /\ entry[t] = "process_async" =>
                  /\ state[t].error = NONE
                  /\ state[t].city = SubjectOf(user_input[t])
            /\ state[t].route = (IF HasCity(state[t].city) THEN "database" ELSE "web")
            /\ Last(executed[t]) = "parallel_fetch" =>
                  /\ state[t].city_summary.tag \in {"db_summary", "web_summary"}
                  /\ Last(state[t].messages).content.tag
                        \in {"found_in_database", "searched_web"}
            /\ (entry[t] = "process_async" /\ pc[t] = "returned") =>
                  /\ Truthy(result[t].error)
                  /\ result[t].city = <<>>
                  /\ result[t].city_summary = EmptyStr
                  /\ result[t].weather_forecast = EmptyList
                  /\ result[t].image_urls = EmptyList

\* process_async has returned after the fan-out node raised in a run whose
\* subject and summary had been written.
C11_Witness ==
    \E t \in Threads :
        /\ entry[t] = "process_async"
        /\ pc[t] = "returned"
        /\ raised[t] # NONE
        /\ Last(executed[t]) = "parallel_fetch"
        /\ state[t].city # <<>>
        /\ Truthy(state[t].city_summary)

ResultKeys == {"city", "city_summary", "weather_forecast", "image_urls"}

\* C12: whatever the user text, the thread id and the outcome of the
\* collaborators, what process_async has returned is a result object with
\* the four primary fields, never the exception; after a failure it carries
\* an error.
C12_AlwaysReturnsResult ==
    \A t \in Threads :
        entry[t] = "process_async" =>
            /\ pc[t] \notin {"END", "raised"} => result[t] = NONE \/ pc[t] = "returned"
            /\ pc[t] = "returned" =>
                  /\ result[t] # NONE
                  /\ ResultKeys \subseteq DOMAIN result[t]
                  /\ "what" \notin DOMAIN result[t]
                  /\ raised[t] # NONE => Truthy(Get(result[t], "error", NONE))

\* process_async has returned a result after the search collaborator raised.
C12_Witness ==
    \E t \in Threads :
        /\ entry[t] = "process_async"
        /\ pc[t] = "returned"
        /\ raised[t] # NONE
        /\ raised[t].what = "search failed"
        /\ ResultKeys \subseteq DOMAIN result[t]

\* C13: history is append-only: in every step, the messages a thread id's
\* state held before the step are a prefix of those it holds after it, for
\* every node and for the start of a further run under the same thread id;
\* the same holds of the checkpoint.
C13_HistoryAppendOnly ==
    [][\A t \in Threads :
          Started(t) =>
              /\ IsPrefix(state[t].messages, state'[t].messages)
              /\ IsPrefix(checkpoint[t].messages, checkpoint'[t].messages)]_vars

\* A node of a second run under a thread id has appended to the history
\* carried over from the first run.
C13_Witness ==
    \E t \in Threads :
        /\ pc[t] = "parallel_fetch"
        /\ Len(SelectSeq(state[t].messages, LAMBDA m : m.role = "human")) = 2
        /\ Last(state[t].messages).role = "ai"
        /\ state[t].messages[1].role = "human"

\* C14: for a non-empty user text, the subject extract_city_node leaves has
\* no leading or trailing whitespace and no longer starts with "tell me
\* about" or "what about" in any letter case; "tell me about Tokyo" and
\* "TELL ME ABOUT Tokyo" both yield "Tokyo".
C14_PrefixStrippedAnyCase ==
    \A t \in Threads :
        (entry[t] = "process_async" /\ user_input[t] # <<>>
            /\ "extract_city" \in Range(executed[t])) =>
            /\ Strip(state[t].city) = state[t].city
            /\ ~IsPrefix(TellMeAboutLow, Lower(state[t].city))
            /\ ~IsPrefix(WhatAboutLow, Lower(state[t].city))
            /\ user_input[t] \in {TextTellTokyo, TextUpperTellTokyo} =>
                  state[t].city = <<"T", "o", "k", "y", "o">>

\* C15: a run of process_async that ends without a failure has run the
\* fan-out node, whichever branch it took, and its result has a populated
\* summary, a forecast of exactly 5 entries, a gallery of exactly 5 locators
\* and no error.
C15_FanOutOnBothBranches ==
    \A t \in Threads :
        (entry[t] = "process_async" /\ pc[t] = "returned" /\ raised[t] = NONE) =>
            /\ state[t].route \in {"database", "web"}
            /\ "parallel_fetch" \in Range(executed[t])
            /\ Truthy(result[t].city_summary)
            /\ Truthy(result[t].weather_forecast)
            /\ Len(result[t].weather_forecast.items) = 5
            /\ Truthy(result[t].image_urls)
            /\ Len(result[t].image_urls.items) = 5
            /\ ~Truthy(Get(result[t], "error", NONE))
            /\ state[t].route = "database" => result[t].city_summary.tag = "db_summary"
            /\ state[t].route = "web" => result[t].city_summary.tag = "web_summary"

\* "Paris" has come back by the database branch under one thread id and
\* "Snohomish" by the web branch under another.
C15_Witness ==
    \E t, u \in Threads :
        /\ entry[t] = "process_async" /\ pc[t] = "returned" /\ raised[t] = NONE
        /\ user_input[t] = TextParis
        /\ state[t].route = "database"
        /\ entry[u] = "process_async" /\ pc[u] = "returned" /\ raised[u] = NONE
        /\ user_input[u] = TextSnohomish
        /\ state[u].route = "web"
        /\ Len(result[u].weather_forecast.items) = 5
        /\ Len(result[t].image_urls.items) = 5

\* The positions in a history of the results serialized by combine_results.
CombinedAt(messages) ==
    {i \in DOMAIN messages : messages[i].role = "ai" /\ messages[i].content.tag = "json"}

\* The subject of the last run completed in a history that holds one.
LastCompletedSubject(messages) ==
    LET i == CHOOSE i \in CombinedAt(messages) : \A j \in CombinedAt(messages) : j <= i
    IN  messages[i].content.obj.city

\* C16: when a run under a thread id has completed, last_city is its
\* subject; and while the nodes before combine_results of a later run under
\* the same thread id execute, last_city is still the subject of the run
\* completed before.
C16_LastSubjectKept ==
    \A t \in Threads :
        entry[t] = "process_async" =>
            /\ (pc[t] \in {"END", "returned"} /\ raised[t] = NONE) =>
                  state[t].last_city = Str(state[t].city)
            /\ (pc[t] \in (Nodes \cup {"gather"}) /\ CombinedAt(state[t].messages) # {}) =>
                  state[t].last_city = Str(LastCompletedSubject(state[t].messages))

RunAlone(text, draw) ==
    LET s0 == InitialState(<<HumanMessage(text)>>)
        s1 == Merge(s0, ExtractCityNode(s0))
        s2 == Merge(s1, CheckDatabaseNode(s1))
        s3 == IF NextNode("check_database", s2) = "get_from_database"
              THEN Merge(s2, GetFromDatabaseNode(s2))
              ELSE Merge(s2, WebSearchNode(s2, MockWebSearch(s2.city)))
        s4 == Merge(s3, ParallelFetchNode(s3,
                  <<MockWeatherApi(s3.city, Days, draw), MockImageApi(s3.city, Count)>>))
    IN  Merge(s4, CombineResultsNode(s4))

\* The history holds nothing of an earlier run: it starts with the one user
\* message in it.
FreshHistory(messages) ==
    /\ messages # <<>>
    /\ messages[1].role = "human"
    /\ Cardinality({i \in DOMAIN messages : messages[i].role = "human"}) = 1

\* C18: runs under different thread ids share no mutable state.  A step
\* changes the state, the checkpoint slot and the bookkeeping of one thread
\* id at most; and however the steps of the runs interleave, the final state
\* and the checkpoint slot of a run on a thread id without history are those
\* of that run executing alone.
C18_ThreadsIsolated ==
    [][ /\ \E t \in Threads : \A u \in Threads \ {t} :
              /\ state'[u] = state[u]
              /\ Load(checkpoint', u) = Load(checkpoint, u)
              /\ pc'[u] = pc[u]
              /\ executed'[u] = executed[u]
              /\ result'[u] = result[u]
              /\ raised'[u] = raised[u]
        /\ \A t \in Threads :
              (/\ pc'[t] = "END"
               /\ entry'[t] = "process_async"
               /\ FreshHistory(state'[t].messages))
              => \E draw \in WeatherDraws :
                    /\ state'[t] = RunAlone(user_input'[t], draw)
                    /\ Load(checkpoint', t) = RunAlone(user_input'[t], draw)
      ]_vars

\* One run has reached END while a run under the other thread id, asked
\* about something else, is between two of its nodes.
C18_Witness ==
    \E t, u \in Threads :
        /\ t # u
        /\ pc[t] = "END"
        /\ entry[t] = "process_async"
        /\ entry[u] = "process_async"
        /\ pc[u] \in {"parallel_fetch", "gather", "combine_results"}
        /\ user_input[t] # user_input[u]
        /\ state[t].city # state[u].city
        /\ \E draw \in WeatherDraws : state[t] = RunAlone(user_input[t], draw)

ResultFields == {"city", "city_summary", "weather_forecast", "image_urls"}

\* C19: the step of the combine node appends one history entry, the
\* serialized structured result, whose subject, summary, forecast and
\* gallery are those of the state the node was handed; it sets last_city to
\* the subject and changes no other field.  The result the caller of
\* process_async receives for a completed run carries the same four values.
C19_CombineFrame ==
    [][\A t \in Threads :
          /\ (pc[t] = "combine_results" /\ pc'[t] # "combine_results") =>
                LET old == state[t]
                    new == state'[t]
                IN  /\ pc'[t] = "END"
                    /\ Len(new.messages) = Len(old.messages) + 1
                    /\ IsPrefix(old.messages, new.messages)
                    /\ Last(new.messages).role = "ai"
                    /\ JsonLoads(Last(new.messages).content).ok
                    /\ \A k \in ResultFields :
                          JsonLoads(Last(new.messages).content).obj[k] = old[k]
                    /\ new.last_city = Str(old.city)
                    /\ \A k \in DOMAIN old \ {"messages", "last_city"} : new[k] = old[k]
                    /\ Load(checkpoint', t) = new
          /\ (pc[t] = "END" /\ pc'[t] = "returned" /\ entry[t] = "process_async") =>
                \A k \in ResultFields : result'[t][k] = state[t][k]
      ]_vars

\* A completed run about a city has returned its structured result.
C19_Witness ==
    \E t \in Threads :
        /\ pc[t] = "returned"
        /\ entry[t] = "process_async"
        /\ raised[t] = NONE
        /\ state[t].city # <<>>
        /\ state[t].image_urls.items # <<>>
        /\ result[t] = JsonLoads(Last(state[t].messages).content).obj
        /\ \A k \in ResultFields : result[t][k] = state[t][k]
        /\ state[t].last_city = Str(state[t].city)

\* C20: has_city and search agree on every key: has_city(k) is true exactly
\* when search(k) returns a record.  For a key that is a stored key in
\* another letter case or with whitespace around it both find the stored
\* record; for the other names asked for neither finds one; and both return
\* a value for every key.
C20_HasFindAgree ==
    lookup # NONE =>
        /\ lookup.has \in BOOLEAN
        /\ lookup.find = NONE \/ lookup.find.tag = "record"
        /\ lookup.has <=> (lookup.find # NONE)
        /\ lookup.base \in CityKeys =>
              /\ lookup.has
              /\ lookup.find.key = lookup.base
              /\ lookup.find.info = cities[lookup.base]
        /\ lookup.base \notin CityKeys => ~lookup.has

\* A stored key asked for in upper case with whitespace on both sides.
C20_Witness ==
    /\ lookup # NONE
    /\ lookup.base = KeyNewYork
    /\ lookup.key \notin CityKeys
    /\ Len(lookup.key) = Len(lookup.base) + 2
    /\ IsUpper(lookup.key[2])
    /\ lookup.has
    /\ lookup.find # NONE

NoNodeTwice(t) ==
    \A i, j \in DOMAIN executed[t] : executed[t][i] = executed[t][j] => i = j

\* C21: every run terminates.  When the event loop keeps running and every
\* collaborator call completes or fails, a run that has started reaches END
\* or stops with an exception and returns to its caller; and no run
\* executes a node twice, the graph having no cycle.
C21_EveryRunTerminates ==
    /\ \A t \in Threads : InRun(t) ~> (pc[t] = "returned")
    /\ [](\A t \in Threads : NoNodeTwice(t) /\ Len(executed[t]) <= 5)

\* A run through process_async that went through all five nodes has
\* returned to its caller.
C21_Witness ==
    \E t \in Threads :
        /\ pc[t] = "returned"
        /\ entry[t] = "process_async"
        /\ raised[t] = NONE
        /\ Len(executed[t]) = 5
        /\ NoNodeTwice(t)
        /\ result[t].city # <<>>

RunFields == {"city", "route", "city_summary", "weather_forecast", "image_urls", "error"}

\* The node of the graph that writes a field (error is written by none in a
\* run that has a user message).
WrittenBy(k) ==
    CASE k = "city" -> {"extract_city"}
      [] k = "route" -> {"check_database"}
      [] k = "city_summary" -> BranchNodes
      [] k \in {"weather_forecast", "image_urls"} -> {"parallel_fetch"}
      [] OTHER -> {}

\* The nodes of the run under t that have completed.
Completed(t) ==
    IF raised[t] = NONE THEN Range(executed[t])
    ELSE Range(SubSeq(executed[t], 1, Len(executed[t]) - 1))

\* C22: what a run through process_async yields does not depend on the runs
\* made before under the same thread id.  While it runs, a field no node of
\* this run has written yet holds its initial value, not that of an earlier
\* run; once extract_city has run the city is the one in the newest user
\* text; and at END city, route, summary, forecast, gallery and error are
\* those of the same text run on a thread id of its own.
C22_ResultIndependentOfHistory ==
    \A t \in Threads :
        (entry[t] = "process_async" /\ Started(t)) =>
            /\ \A k \in RunFields :
                  (WrittenBy(k) \cap Completed(t) = {}) =>
                      state[t][k] = InitialState(<<>>)[k]
            /\ "extract_city" \in Completed(t) => state[t].city = SubjectOf(user_input[t])
            /\ pc[t] = "END" =>
                  \E alone \in {RunAlone(user_input[t], draw) : draw \in WeatherDraws} :
                      \A k \in RunFields : state[t][k] = alone[k]
            /\ (pc[t] = "returned" /\ raised[t] = NONE) =>
                  \A k \in ResultFields : result[t][k] = state[t][k]

\* A second run under a thread id, about another city than the first, has
\* returned.
C22_Witness ==
    \E t \in Threads :
        /\ entry[t] = "process_async"
        /\ pc[t] = "returned"
        /\ raised[t] = NONE
        /\ ~FreshHistory(state[t].messages)
        /\ CombinedAt(state[t].messages) # {}
        /\ \E i \in CombinedAt(state[t].messages) :
              /\ i < Len(state[t].messages)
              /\ state[t].messages[i].content.obj.city # state[t].city
        /\ result[t].city = SubjectOf(user_input[t])
        /\ result[t].city # <<>>

\* C23: in a run started through process_async no node sets error.  The
\* extraction node finds a user message at the end of the history, the
\* lookup node finds the record of the city whenever it runs, and error
\* stays None in the state from the start of the run to its end.
C23_NoNodeSetsError ==
    \A t \in Threads :
        (entry[t] = "process_async" /\ Started(t)) =>
            /\ state[t].error = NONE
            /\ Load(checkpoint, t).error = NONE
            /\ pc[t] = "extract_city" =>
                  /\ state[t].messages # <<>>
                  /\ Last(state[t].messages) = HumanMessage(user_input[t])
            /\ pc[t] = "get_from_database" =>
                  /\ Search(state[t].city) # NONE
                  /\ "error" \notin DOMAIN GetFromDatabaseNode(state[t])
            /\ "get_from_database" \in Completed(t) =>
                  /\ state[t].city_summary # NONE
                  /\ state[t].city_summary.tag = "db_summary"

\* The lookup node has found the record of a city that was not asked for in
\* the letter case of its key.
C23_Witness ==
    \E t \in Threads :
        /\ entry[t] = "process_async"
        /\ "get_from_database" \in Completed(t)
        /\ state[t].city \notin CityKeys
        /\ state[t].city_summary # NONE
        /\ state[t].error = NONE

=============================================================================
